---- MODULE Spec2Model ----
(***************************************************************************)
(* A model of the timeline declutter-and-layout engine of my-med-tracker   *)
(* (src/src/components/TimelineHistory.jsx, with getStartOfDay from the    *)
(* time utilities).                                                        *)
(*                                                                         *)
(* Numbers.  A JavaScript number holding a pixel position is modelled in   *)
(* fixed point: one pixel is PX units, so with PX = 100 a position is a    *)
(* whole number of hundredths of a pixel.  Every zoom level of ZOOM_LEVELS *)
(* has at most two decimals, so a true ordinate (getTimeTop) is exact in   *)
(* these units; the relaxation of solveLayout rounds to the nearest unit   *)
(* where the real arithmetic would leave the grid (the centroid and the    *)
(* damped pull).                                                           *)
(*                                                                         *)
(* Dates.  A Date is a record [day, sec]: the local calendar day (an       *)
(* index) and the seconds elapsed since local midnight.                    *)
(***************************************************************************)
EXTENDS Integers, Sequences, FiniteSets, TLC

VARIABLES
    intakes,          \* useState intakes: the working event list
    groupedByDay,     \* the memoised value of the groupedByDay useMemo
    currentTime,      \* useState currentTime
    zoomLevel,        \* useState zoomLevel (in hundredths: 1x = 100)
    expandedClusters, \* useState expandedClusters: a set of cluster keys
    now,              \* the wall clock, what new Date() returns
    items,            \* argument of a solveLayout call under study
    solved,           \* value returned by that call
    dates,            \* arguments of two getTimeTop calls under study
    tops,             \* values returned by those calls
    clusters,         \* a computeClusters call under study and its value
    zooms,            \* two zoom levels at which the tick plan is drawn
    ticks,            \* the tick and label intervals chosen at those levels
    rendered,         \* what one render of the day list puts on screen
    snapshots,        \* the snapshots the store has delivered, oldest first
    toggle,           \* a toggleExpand call under study: its key, the set before
    pc                \* position of the function call / component life cycle

vars == <<intakes, groupedByDay, currentTime, zoomLevel, expandedClusters,
          now, items, solved, dates, tops, clusters, zooms, ticks, rendered,
          snapshots, toggle, pc>>

----------------------------------------------------------------------------
(* Program constants *)

\* one pixel, in model units
PX == 100
CLUSTER_THRESHOLD_PX == 38
PANEL_H == 36
CONNECTOR_THRESHOLD_PX == 4
BASE_DAY_HEIGHT_PX == 1440
\* number of relaxation passes of solveLayout
RELAX_PASSES == 40
\* the damping factor 0.08 of the pull, as DAMPING_NUM / DAMPING_DEN
DAMPING_NUM == 8
DAMPING_DEN == 100

\* ZOOM_LEVELS[k].value, in hundredths
ZOOM_LEVELS == <<25, 50, 75, 100, 125, 150, 200, 250, 300, 350, 400, 450,
                 500, 550, 600, 800, 1000>>

ZoomValues == {ZOOM_LEVELS[k] : k \in DOMAIN ZOOM_LEVELS}

----------------------------------------------------------------------------
(* Bounds of the model *)

\* longest argument list of a solveLayout call under study
MaxItems == 4
\* largest number of documents in a store snapshot
MaxIntakes == 2
\* last calendar day of the model (days are 0..MaxDay)
MaxDay == 3
\* longest event list given to the day grouper under study
MaxEvents == 3
\* largest number of events in the day bucket given to computeClusters
MaxCluster == 3
\* largest number of events in the list given to one render under study
MaxRender == 3
\* largest number of snapshots delivered to the component under study
MaxSnapshots == 3
\* largest number of events of the component under user actions
MaxUser == 3
\* largest number of events of the day rendered with centre cards
MaxCards == 3
\* rounding tolerance, in model units, granted to claims on relaxed positions
RoundTol == 5

\* document ids; a model with n documents uses the first n
IdPool == <<"a", "b", "c", "d", "e", "f">>

idIndex(id) == CHOOSE k \in DOMAIN IdPool : IdPool[k] = id

----------------------------------------------------------------------------
(* Dates *)

SECONDS_PER_DAY == 86400

Date(d, s) == [day |-> d, sec |-> s]

\* Date.prototype.getTime / the numeric value used by date subtraction (s)
getTime(date) == date.day * SECONDS_PER_DAY + date.sec

getHours(date) == date.sec \div 3600

getMinutes(date) == (date.sec % 3600) \div 60

\* utils/time getStartOfDay: setHours(0, 0, 0, 0) on a copy
getStartOfDay(date) == [date EXCEPT !.sec = 0]

\* toLocaleDateString("uk-UA"): the calendar date "dd.mm.yyyy" of a Date,
\* which keeps the day and drops the time of day
toLocaleDateString(date) == date.day

----------------------------------------------------------------------------
(* Array.prototype.sort with a comparator (a, b) => key(a) - key(b): a     *)
(* stable sort, ascending by key.  sortedBy(keys) is the permutation: the  *)
(* k-th element of the sorted array is the input element sortedBy(keys)[k] *)

rankOf(keys, i) ==
    1 + Cardinality({j \in DOMAIN keys :
                        keys[j] < keys[i] \/ (keys[j] = keys[i] /\ j < i)})

sortedBy(keys) ==
    [k \in DOMAIN keys |-> CHOOSE i \in DOMAIN keys : rankOf(keys, i) = k]

\* a JavaScript array: the elements held as values, not recomputed per read
array(f) == SubSeq(f, 1, Len(f))

permute(seq, perm) == array([k \in DOMAIN seq |-> seq[perm[k]]])

----------------------------------------------------------------------------
(* Time Mapper *)

\* DAY_VIEWPORT_HEIGHT_PX = BASE_DAY_HEIGHT_PX * zoomLevel, at zoom z
dayViewportHeightAt(z) == BASE_DAY_HEIGHT_PX * z

\* a slip of line 234: the axis is not inverted, 00:00 lands at the top
getTimeTopNotInverted(date, z) ==
    LET mins == getHours(date) * 60 + getMinutes(date)
    IN  mins * z

\* a slip of line 234: only the day height is scaled by the zoom level
getTimeTopUnscaledMinutes(date, z) ==
    LET mins == getHours(date) * 60 + getMinutes(date)
    IN  BASE_DAY_HEIGHT_PX * z - mins * PX

\* a slip of line 234: the minutes are divided by the zoom level
getTimeTopDividedByZoom(date, z) ==
    LET mins == getHours(date) * 60 + getMinutes(date)
    IN  ((BASE_DAY_HEIGHT_PX - mins) * PX * PX) \div z

\* getTimeTop at zoom z
getTimeTopAt(date, z) ==
    LET mins == getHours(date) * 60 + getMinutes(date)
    IN  (BASE_DAY_HEIGHT_PX - mins) * z

getTimeTop(date) == getTimeTopAt(date, zoomLevel)

DAY_VIEWPORT_HEIGHT_PX == dayViewportHeightAt(zoomLevel)

----------------------------------------------------------------------------
(* Day Grouper: the body of the groupedByDay useMemo, lines 129-147.       *)
(* `groups` is the object of line 130, held as the list of its entries in  *)
(* insertion order (the keys are date strings, so Object.values keeps that *)
(* order).                                                                 *)

hasGroup(groups, dateStr) == \E g \in DOMAIN groups : groups[g].key = dateStr

groupIndex(groups, dateStr) ==
    CHOOSE g \in DOMAIN groups : groups[g].key = dateStr

\* a slip of line 143: unshift in place of push
groupIntakeUnshift(groups, intake) ==
    LET dateStr == toLocaleDateString(getStartOfDay(intake.timestamp))
        created == IF hasGroup(groups, dateStr) THEN groups
                   ELSE Append(groups,
                               [key |-> dateStr,
                                date |-> getStartOfDay(intake.timestamp),
                                intakes |-> <<>>])
    IN  [created EXCEPT ![groupIndex(created, dateStr)].intakes =
                            <<intake>> \o @]

\* lines 135-143: one iteration of intakes.forEach
groupIntake(groups, intake) ==
    LET dateStr == toLocaleDateString(getStartOfDay(intake.timestamp))
        created == IF hasGroup(groups, dateStr) THEN groups
                   ELSE Append(groups,
                               [key |-> dateStr,
                                date |-> getStartOfDay(intake.timestamp),
                                intakes |-> <<>>])
    IN  [created EXCEPT ![groupIndex(created, dateStr)].intakes =
                            Append(@, intake)]

RECURSIVE groupIntakes(_, _)
groupIntakes(groups, list) ==
    IF list = <<>> THEN groups
    ELSE groupIntakes(groupIntake(groups, Head(list)), Tail(list))

\* the entries of `groups` as Object.values(groups).sort(...) returns them,
\* the comparator being (a, b) => sign * (b.date - a.date)
sortedValues(groups, sign) ==
    LET values == array([g \in DOMAIN groups |->
                           [date |-> groups[g].date,
                            intakes |-> groups[g].intakes]])
        keys == array([g \in DOMAIN values |->
                         0 - sign * getTime(values[g].date)])
    IN  permute(values, sortedBy(keys))

\* a slip of lines 131-132: no bucket is seeded for today
groupByDayNoToday(list, clock) == sortedValues(groupIntakes(<<>>, list), 1)

\* a slip of line 146: a.date - b.date, oldest day first
groupByDayAscending(list, clock) ==
    LET today == getStartOfDay(clock)
        first == <<[key |-> toLocaleDateString(today), date |-> today,
                    intakes |-> <<>>]>>
    IN  sortedValues(groupIntakes(first, list), -1)

\* a slip of line 134: events after the current instant are skipped
groupByDaySkipFuture(list, clock) ==
    LET today == getStartOfDay(clock)
        first == <<[key |-> toLocaleDateString(today), date |-> today,
                    intakes |-> <<>>]>>
        past == SelectSeq(list, LAMBDA e : getTime(e.timestamp) <= getTime(clock))
    IN  sortedValues(groupIntakes(first, past), 1)

\* lines 130-146, with new Date() = clock
groupByDay(list, clock) ==
    LET today == getStartOfDay(clock)
        first == <<[key |-> toLocaleDateString(today), date |-> today,
                    intakes |-> <<>>]>>
    IN  sortedValues(groupIntakes(first, list), 1)

----------------------------------------------------------------------------
(* Layout Solver *)

\* x / n and x * 0.08, rounded to the nearest model unit
roundDiv(x, n) == (2 * x + n) \div (2 * n)

\* a slip of line 44: the pull takes half of the distance to the dot
dampedHalf(x) == roundDiv(x, 2)

damped(x) == roundDiv(x * DAMPING_NUM, DAMPING_DEN)

RECURSIVE sumDotY(_)
sumDotY(its) ==
    IF its = <<>> THEN 0 ELSE Head(its).dotY + sumDotY(Tail(its))

\* lines 23-28: the contiguous stack centred on the centroid
seedPanels(its) ==
    LET n == Len(its)
        centroid == roundDiv(sumDotY(its), n)
        half == ((n - 1) * PANEL_H * PX) \div 2
    IN  array([idx \in 1..n |-> centroid - half + (idx - 1) * PANEL_H * PX])

\* a slip of lines 33-36: the forward sweep is missing
pushDownNone(panels, i) == panels

\* lines 33-36: push apart, top to bottom, from index i on
RECURSIVE pushDown(_, _)
pushDown(panels, i) ==
    IF i > Len(panels) THEN panels
    ELSE LET overlap == panels[i - 1] + PANEL_H * PX - panels[i]
         IN  pushDown(IF overlap > 0
                        THEN [panels EXCEPT ![i] = @ + overlap]
                        ELSE panels,
                      i + 1)

\* lines 38-41: push apart, bottom to top, from index i down
RECURSIVE pushUp(_, _)
pushUp(panels, i) ==
    IF i < 1 THEN panels
    ELSE LET overlap == panels[i] + PANEL_H * PX - panels[i + 1]
         IN  pushUp(IF overlap > 0
                      THEN [panels EXCEPT ![i] = @ - overlap]
                      ELSE panels,
                    i - 1)

\* lines 43-45: gentle pull toward own dot, from index i on
RECURSIVE pullToDots(_, _, _)
pullToDots(panels, its, i) ==
    IF i > Len(panels) THEN panels
    ELSE pullToDots([panels EXCEPT ![i] = @ + damped(its[i].dotY - @)],
                    its, i + 1)

\* lines 32-45: one pass of the relaxation loop
relaxPass(panels, its) ==
    pullToDots(pushUp(pushDown(panels, 2), Len(panels) - 1), its, 1)

\* line 31: the passes after the first `pass` ones, applied to panels
RECURSIVE relaxFrom(_, _, _)
relaxFrom(panels, its, pass) ==
    IF pass < RELAX_PASSES /\ Len(panels) > 0
    THEN relaxFrom(relaxPass(panels, its), its, pass + 1)
    ELSE panels

\* the panels at the start of pass number `pass` (0 is the seed)
panelsAt(its, pass) == relaxFrom(seedPanels(its), its, RELAX_PASSES - pass)

\* the panels when the loop of line 31 ends
relaxed(its) == relaxFrom(seedPanels(its), its, 0)

\* { ...it, panelY }
withPanelY(it, y) == [dotY |-> it.dotY, intake |-> it.intake, panelY |-> y]

\* a slip of the early returns: a single item returns the empty list
solveLayoutNoSingle(its) ==
    IF Len(its) <= 1 THEN <<>>
    ELSE LET panels == relaxed(its)
         IN  array([idx \in DOMAIN its |-> withPanelY(its[idx], panels[idx])])

solveLayout(its) ==
    IF Len(its) = 0 THEN <<>>
    ELSE IF Len(its) = 1 THEN <<withPanelY(its[1], its[1].dotY)>>
    ELSE LET panels == relaxed(its)
         IN  array([idx \in DOMAIN its |-> withPanelY(its[idx], panels[idx])])

----------------------------------------------------------------------------
(* Clusterer: computeClusters, lines 280-328 *)

\* a slip of line 283: the filter on patientId is missing
laneIntakesAllLanes(dayIntakes, patientId) ==
    LET keys == array([k \in DOMAIN dayIntakes |->
                          0 - getTime(dayIntakes[k].timestamp)])
    IN  permute(dayIntakes, sortedBy(keys))

\* lines 282-285: the lane's intakes, newest first
laneIntakes(dayIntakes, patientId) ==
    LET lane == SelectSeq(dayIntakes, LAMBDA i : i.patientId = patientId)
        keys == array([k \in DOMAIN lane |-> 0 - getTime(lane[k].timestamp)])
    IN  permute(lane, sortedBy(keys))

\* a slip of line 300: the gap is measured from the first member of the group
RECURSIVE growGroupFromFirst(_, _, _)
growGroupFromFirst(withPos, group, j) ==
    IF j > Len(withPos) THEN group
    ELSE LET gap == withPos[j].topPx - group[1].topPx
         IN  IF gap < CLUSTER_THRESHOLD_PX * PX
             THEN growGroupFromFirst(withPos, Append(group, withPos[j]), j + 1)
             ELSE group

\* lines 299-307: the group grown from `group` by the scan from index j
RECURSIVE growGroup(_, _, _)
growGroup(withPos, group, j) ==
    IF j > Len(withPos) THEN group
    ELSE LET gap == withPos[j].topPx - group[Len(group)].topPx
         IN  IF gap < CLUSTER_THRESHOLD_PX * PX
             THEN growGroup(withPos, Append(group, withPos[j]), j + 1)
             ELSE group

RECURSIVE sumTopPx(_)
sumTopPx(group) ==
    IF group = <<>> THEN 0 ELSE Head(group).topPx + sumTopPx(Tail(group))

\* a slip of line 308: a group of one is pushed as a cluster too
clusterItemAlways(group) ==
    [type |-> "cluster",
     intakes |-> array([g \in DOMAIN group |-> group[g].intake]),
     topPx |-> roundDiv(sumTopPx(group), Len(group)),
     lastTime |-> group[1].intake.timestamp]

\* a slip of line 313: lastTime is taken from the last member of the group
clusterItemOldest(group) ==
    IF Len(group) = 1
    THEN [type |-> "single", intake |-> group[1].intake,
          topPx |-> group[1].topPx]
    ELSE [type |-> "cluster",
          intakes |-> array([g \in DOMAIN group |-> group[g].intake]),
          topPx |-> roundDiv(sumTopPx(group), Len(group)),
          lastTime |-> group[Len(group)].intake.timestamp]

\* lines 308-322: the item pushed for a closed group (totalMg, a sum of the
\* dosages that nothing else reads, is left out)
clusterItem(group) ==
    IF Len(group) = 1
    THEN [type |-> "single", intake |-> group[1].intake,
          topPx |-> group[1].topPx]
    ELSE [type |-> "cluster",
          intakes |-> array([g \in DOMAIN group |-> group[g].intake]),
          topPx |-> roundDiv(sumTopPx(group), Len(group)),
          lastTime |-> group[1].intake.timestamp]

\* lines 296-324: the outer scan from index i
RECURSIVE scanClusters(_, _)
scanClusters(withPos, i) ==
    IF i > Len(withPos) THEN <<>>
    ELSE LET group == growGroup(withPos, <<withPos[i]>>, i + 1)
         IN  <<clusterItem(group)>> \o scanClusters(withPos, i + Len(group))

computeClustersAt(dayIntakes, patientId, z) ==
    LET its == laneIntakes(dayIntakes, patientId)
        withPos == array([k \in DOMAIN its |->
                            [intake |-> its[k],
                             topPx |-> getTimeTopAt(its[k].timestamp, z)]])
    IN  scanClusters(withPos, 1)

computeClusters(dayIntakes, patientId) ==
    computeClustersAt(dayIntakes, patientId, zoomLevel)

----------------------------------------------------------------------------
(* renderPatientSide, lines 941-1060: the layout of one lane of one day *)

\* ids.join("_")
RECURSIVE joinIds(_)
joinIds(list) ==
    IF list = <<>> THEN ""
    ELSE IF Len(list) = 1 THEN list[1].id
    ELSE list[1].id \o "_" \o joinIds(Tail(list))

\* lines 957 and 978
clusterKey(item) == joinIds(item.intakes)

\* a slip of lines 958-966: a collapsed cluster's members are laid out too
unitsOfAlways(item, expanded, z) ==
    IF item.type = "single"
    THEN <<[dotY |-> item.topPx, intake |-> item.intake]>>
    ELSE array([k \in DOMAIN item.intakes |->
                  [dotY |-> getTimeTopAt(item.intakes[k].timestamp, z),
                   intake |-> item.intakes[k]]])

\* lines 952-968: the layout units one item contributes
unitsOf(item, expanded, z) ==
    IF item.type = "single"
    THEN <<[dotY |-> item.topPx, intake |-> item.intake]>>
    ELSE IF clusterKey(item) \in expanded
    THEN array([k \in DOMAIN item.intakes |->
                  [dotY |-> getTimeTopAt(item.intakes[k].timestamp, z),
                   intake |-> item.intakes[k]]])
    ELSE <<>>

RECURSIVE layoutUnitsOf(_, _, _)
layoutUnitsOf(its, expanded, z) ==
    IF its = <<>> THEN <<>>
    ELSE unitsOf(Head(its), expanded, z)
            \o layoutUnitsOf(Tail(its), expanded, z)

\* lines 964-966: the collapsed clusters, rendered as nodes at topPx
clusterNodesOf(its, expanded) ==
    SelectSeq(its, LAMBDA item :
        item.type = "cluster" /\ clusterKey(item) \notin expanded)

\* lines 949-974: the solved layout units (the cards), sorted by dotY
solvedOf(its, expanded, z) ==
    LET units == layoutUnitsOf(its, expanded, z)
        keys == array([k \in DOMAIN units |-> units[k].dotY])
    IN  solveLayout(permute(units, sortedBy(keys)))

\* what the component renders for one lane of one day bucket
laneItems(day, patientId) == computeClusters(day.intakes, patientId)

laneNodes(day, patientId) ==
    clusterNodesOf(laneItems(day, patientId), expandedClusters)

\* a slip of lines 1075-1076: one layout is solved for both lanes of the day
laneCardsBothLanes(day, patientId) ==
    solvedOf(laneItems(day, "AH") \o laneItems(day, "EI"),
             expandedClusters, zoomLevel)

laneCards(day, patientId) ==
    solvedOf(laneItems(day, patientId), expandedClusters, zoomLevel)

Lanes == {"AH", "EI"}

\* lines 1067-1076: the items, cluster nodes and cards of one lane of a day
renderLane(day, patientId) ==
    [items |-> laneItems(day, patientId),
     nodes |-> laneNodes(day, patientId),
     cards |-> laneCards(day, patientId)]

\* lines 1063-1065: the events shown in the centre, outside the lanes
noIntakes(day) ==
    SelectSeq(day.intakes, LAMBDA i : i.patientId = "NO" \/ i.subtype = "LOST")

\* lines 1072-1074: their cards, drawn at the true ordinate
noCardsOf(day) ==
    LET list == noIntakes(day)
    IN  array([k \in DOMAIN list |->
                  [dotY |-> getTimeTop(list[k].timestamp),
                   intake |-> list[k],
                   panelY |-> getTimeTop(list[k].timestamp)]])

\* one day of sortedDays.map: the centre cards and the two lanes
renderDay(day) ==
    [date |-> day.date,
     noCards |-> noCardsOf(day),
     lanes |-> [p \in Lanes |-> renderLane(day, p)]]

\* the events of a list of day buckets, in bucket order
RECURSIVE flatten(_)
flatten(buckets) ==
    IF buckets = <<>> THEN <<>>
    ELSE Head(buckets).intakes \o flatten(Tail(buckets))

\* a slip of line 1067: every day is laid out from the events of all days
renderDaysShared(days) ==
    array([b \in DOMAIN days |->
              renderDay([date |-> days[b].date, intakes |-> flatten(days)])])

renderDays(days) == array([b \in DOMAIN days |-> renderDay(days[b])])

\* the keys of the cluster nodes on screen, each with its click handler
visibleClusterKeys ==
    UNION {{clusterKey(laneNodes(groupedByDay[t[1]], t[2])[k]) :
               k \in DOMAIN laneNodes(groupedByDay[t[1]], t[2])} :
           t \in (DOMAIN groupedByDay) \X Lanes}

----------------------------------------------------------------------------
(* Spec: the mounted TimelineHistory component.  The store delivers a      *)
(* snapshot after every write; a write adds, changes or deletes one        *)
(* document, and the query orders the documents by timestamp descending    *)
(* (documents with equal timestamps by id).                                *)

\* the day on which the component is mounted, and the days of the documents
MountDay == MaxDay - 1

DocDays == {0, MountDay, MaxDay}

\* times of day of the documents: 10:00:00, 10:00:30, 10:20:00, 22:00:00
DocTimes == {36000, 36030, 37200, 79200}

DocStamps ==
    {Date(0, 36000), Date(MaxDay, 36000)}
        \cup {Date(MountDay, t) : t \in DocTimes}

Ids == {IdPool[k] : k \in 1..MaxIntakes}

Docs == [id : Ids, patientId : Lanes, timestamp : DocStamps]

\* the documents of a snapshot, in query order
queryOrder(docSet) ==
    LET byId == array([k \in 1..Cardinality(docSet) |->
                         CHOOSE d \in docSet :
                             Cardinality({e \in docSet :
                                 idIndex(e.id) < idIndex(d.id)}) = k - 1])
        keys == array([k \in DOMAIN byId |-> 0 - getTime(byId[k].timestamp)])
    IN  permute(byId, sortedBy(keys))

\* a document whose timestamp field is not set (doc.data().timestamp is
\* null, as for a pending server timestamp)
NoTimestamp == [day |-> 0 - 1, sec |-> 0]

\* lines 115-119: id, the document's data, and timestamp as a Date
intakeOf(doc) ==
    [id |-> doc.id, patientId |-> doc.patientId,
     timestamp |-> IF doc.timestamp = NoTimestamp THEN now ELSE doc.timestamp]

\* a slip of line 114: the documents are appended to the stored intakes
mapDocsMerged(docs) ==
    intakes \o array([k \in DOMAIN docs |-> intakeOf(docs[k])])

mapDocs(docs) == array([k \in DOMAIN docs |-> intakeOf(docs[k])])

storedDocs == {intakes[k] : k \in DOMAIN intakes}

Init ==
    /\ snapshots = <<>>
    /\ toggle = <<>>
    /\ intakes = <<>>
    /\ now = Date(MountDay, 43200)
    /\ currentTime = now
    /\ zoomLevel = 100
    /\ expandedClusters = {}
    /\ groupedByDay = groupByDay(<<>>, now)
    /\ items = <<>>
    /\ solved = <<>>
    /\ dates = <<>>
    /\ tops = <<>>
    /\ clusters = <<>>
    /\ zooms = <<>>
    /\ ticks = <<>>
    /\ rendered = <<>>
    /\ pc = "mounted"

\* lines 113-121: setIntakes, and the groupedByDay memo recomputed for the
\* new intakes
setIntakes(docs) ==
    /\ intakes' = mapDocs(docs)
    /\ groupedByDay' = groupByDay(intakes', now)

\* the onSnapshot callback
OnSnapshot(docs) ==
    /\ pc = "mounted"
    /\ setIntakes(docs)
    /\ UNCHANGED <<currentTime, zoomLevel, expandedClusters, now, items,
                   solved, pc, dates, tops,
                   clusters, zooms, ticks, rendered,
                   snapshots, toggle>>

\* a document is written (added, or changed when its id is stored)
DocWritten ==
    \E d \in Docs :
        /\ d \notin storedDocs
        /\ OnSnapshot(queryOrder({e \in storedDocs : e.id # d.id} \cup {d}))

DocDeleted ==
    \E d \in storedDocs : OnSnapshot(queryOrder(storedDocs \ {d}))

\* the wall clock passes midnight
ClockAdvance ==
    /\ pc = "mounted"
    /\ now.day < MaxDay
    /\ now' = Date(now.day + 1, 60)
    /\ UNCHANGED <<intakes, groupedByDay, currentTime, zoomLevel,
                   expandedClusters, items, solved, pc, dates, tops,
                   clusters, zooms, ticks, rendered,
                   snapshots, toggle>>

\* line 125: the one-minute timer
TimerTick ==
    /\ pc = "mounted"
    /\ currentTime' = now
    /\ UNCHANGED <<intakes, groupedByDay, zoomLevel, expandedClusters, now,
                   items, solved, pc, dates, tops,
                   clusters, zooms, ticks, rendered,
                   snapshots, toggle>>

\* ZOOM_LEVELS.findIndex((z) => z.value === zoomLevel), 1-based; 0 = not found
findZoomIndex(z) ==
    IF \E k \in DOMAIN ZOOM_LEVELS : ZOOM_LEVELS[k] = z
    THEN CHOOSE k \in DOMAIN ZOOM_LEVELS : ZOOM_LEVELS[k] = z
    ELSE 0

\* a slip of line 260: the level after the next one is taken
zoomInSkipping ==
    /\ pc = "mounted"
    /\ LET currentIndex == findZoomIndex(zoomLevel)
       IN  zoomLevel' = IF currentIndex < Len(ZOOM_LEVELS) - 1
                        THEN ZOOM_LEVELS[currentIndex + 2]
                        ELSE zoomLevel
    /\ UNCHANGED <<intakes, groupedByDay, currentTime, expandedClusters, now,
                   items, solved, pc, dates, tops, clusters, zooms, ticks,
                   rendered, snapshots, toggle>>

\* lines 257-262
zoomIn ==
    /\ pc = "mounted"
    /\ LET currentIndex == findZoomIndex(zoomLevel)
       IN  zoomLevel' = IF currentIndex < Len(ZOOM_LEVELS)
                        THEN ZOOM_LEVELS[currentIndex + 1]
                        ELSE zoomLevel
    /\ UNCHANGED <<intakes, groupedByDay, currentTime, expandedClusters, now,
                   items, solved, pc, dates, tops,
                   clusters, zooms, ticks, rendered,
                   snapshots, toggle>>

\* lines 264-269
zoomOut ==
    /\ pc = "mounted"
    /\ LET currentIndex == findZoomIndex(zoomLevel)
       IN  zoomLevel' = IF currentIndex > 1
                        THEN ZOOM_LEVELS[currentIndex - 1]
                        ELSE zoomLevel
    /\ UNCHANGED <<intakes, groupedByDay, currentTime, expandedClusters, now,
                   items, solved, pc, dates, tops,
                   clusters, zooms, ticks, rendered,
                   snapshots, toggle>>

\* line 366: the select offers the values of ZOOM_LEVELS
SelectZoom ==
    /\ pc = "mounted"
    /\ \E z \in ZoomValues : zoomLevel' = z
    /\ UNCHANGED <<intakes, groupedByDay, currentTime, expandedClusters, now,
                   items, solved, pc, dates, tops,
                   clusters, zooms, ticks, rendered,
                   snapshots, toggle>>

\* a slip of lines 989-990: the key is added whether or not it is present
toggledAddOnly(prev, key) == prev \cup {key}

\* lines 987-992: the updater given to setExpandedClusters
toggled(prev, key) ==
    IF key \in prev THEN prev \ {key} ELSE prev \cup {key}

\* a slip of line 998: the handler is also attached to expanded clusters
toggleExpandAnyCluster ==
    /\ pc = "mounted"
    /\ \E key \in visibleClusterKeys \cup expandedClusters :
           expandedClusters' = toggled(expandedClusters, key)
    /\ UNCHANGED <<intakes, groupedByDay, currentTime, zoomLevel, now, items,
                   solved, pc, dates, tops, clusters, zooms, ticks,
                   rendered, snapshots, toggle>>

\* lines 985-993, the click handler of a rendered cluster node
toggleExpand ==
    /\ pc = "mounted"
    /\ \E key \in visibleClusterKeys :
           expandedClusters' = toggled(expandedClusters, key)
    /\ UNCHANGED <<intakes, groupedByDay, currentTime, zoomLevel, now, items,
                   solved, pc, dates, tops,
                   clusters, zooms, ticks, rendered,
                   snapshots, toggle>>

Next ==
    \/ DocWritten
    \/ DocDeleted
    \/ ClockAdvance
    \/ TimerTick
    \/ zoomIn
    \/ zoomOut
    \/ SelectZoom
    \/ toggleExpand

Spec == Init /\ [][Next]_vars

----------------------------------------------------------------------------
(* LayoutSpec: solveLayout called on an argument drawn from a bounded set  *)
(* of lists sorted ascending by dotY.                                      *)

\* true ordinates offered to the solver, in pixels
LayoutDotsPx == {0, 5, 9, 36, 50, 100, 1300}

LayoutInputs ==
    LET dots == {d * PX : d \in LayoutDotsPx}
        lists == UNION {[1..n -> dots] : n \in 0..MaxItems}
    IN  {[i \in DOMAIN l |-> [dotY |-> l[i], intake |-> i]] :
            l \in {m \in lists : \A i \in 1..(Len(m) - 1) : m[i] <= m[i + 1]}}

LayoutInit ==
    /\ snapshots = <<>>
    /\ toggle = <<>>
    /\ items \in LayoutInputs
    /\ solved = <<>>
    /\ pc = "call"
    /\ dates = <<>>
    /\ tops = <<>>
    /\ clusters = <<>>
    /\ zooms = <<>>
    /\ ticks = <<>>
    /\ rendered = <<>>
    /\ intakes = <<>>
    /\ groupedByDay = <<>>
    /\ now = Date(0, 0)
    /\ currentTime = Date(0, 0)
    /\ zoomLevel = 100
    /\ expandedClusters = {}

CallSolveLayout ==
    /\ pc = "call"
    /\ solved' = solveLayout(items)
    /\ pc' = "returned"
    /\ UNCHANGED <<intakes, groupedByDay, currentTime, zoomLevel,
                   expandedClusters, now, items, dates, tops,
                   clusters, zooms, ticks, rendered,
                   snapshots, toggle>>

LayoutNext == CallSolveLayout

LayoutSpec == LayoutInit /\ [][LayoutNext]_vars

----------------------------------------------------------------------------
(* GroupSpec: the day grouper applied to an event list drawn from a        *)
(* bounded set, in the order the store query delivers (timestamp           *)
(* descending), on a day drawn from 0..MaxDay.                             *)

\* times of day of the events offered to the grouper (00:00:00, 23:59:59)
GroupTimes == {0, 86399}

GroupStamps == {Date(d, t) : d \in 0..MaxDay, t \in GroupTimes}

isNewestFirst(list) ==
    \A i \in 1..(Len(list) - 1) : getTime(list[i]) >= getTime(list[i + 1])

GroupInputs ==
    LET stamps == UNION {[1..n -> GroupStamps] : n \in 0..MaxEvents}
    IN  {[i \in DOMAIN l |->
            [id |-> IdPool[i], patientId |-> "AH", timestamp |-> l[i]]] :
            l \in {m \in stamps : isNewestFirst(m)}}

GroupInit ==
    /\ snapshots = <<>>
    /\ toggle = <<>>
    /\ intakes \in GroupInputs
    /\ now \in {Date(d, 43200) : d \in 0..MaxDay}
    /\ groupedByDay = <<>>
    /\ pc = "call"
    /\ dates = <<>>
    /\ tops = <<>>
    /\ clusters = <<>>
    /\ zooms = <<>>
    /\ ticks = <<>>
    /\ rendered = <<>>
    /\ currentTime = now
    /\ zoomLevel = 100
    /\ expandedClusters = {}
    /\ items = <<>>
    /\ solved = <<>>

CallGroupByDay ==
    /\ pc = "call"
    /\ groupedByDay' = groupByDay(intakes, now)
    /\ pc' = "returned"
    /\ UNCHANGED <<intakes, currentTime, zoomLevel, expandedClusters, now,
                   items, solved, dates, tops,
                   clusters, zooms, ticks, rendered,
                   snapshots, toggle>>

GroupNext == CallGroupByDay

GroupSpec == GroupInit /\ [][GroupNext]_vars

----------------------------------------------------------------------------
(* getTimeTop called on two timestamps at one zoom level *)

\* times of day offered to the mapper: around the minute, the hour and the
\* day boundaries, and two instants of one minute (10:00:00, 10:00:30)
ProbeSecs == {0, 59, 60, 3599, 3600, 36000, 36030, 43200, 86340, 86399}

ProbeDates == {Date(d, t) : d \in {0, MountDay}, t \in ProbeSecs}

TimeInit ==
    /\ snapshots = <<>>
    /\ toggle = <<>>
    /\ dates \in ProbeDates \X ProbeDates
    /\ zoomLevel \in ZoomValues
    /\ tops = <<>>
    /\ clusters = <<>>
    /\ zooms = <<>>
    /\ ticks = <<>>
    /\ rendered = <<>>
    /\ pc = "call"
    /\ intakes = <<>>
    /\ groupedByDay = <<>>
    /\ now = Date(MountDay, 43200)
    /\ currentTime = now
    /\ expandedClusters = {}
    /\ items = <<>>
    /\ solved = <<>>

CallGetTimeTop ==
    /\ pc = "call"
    /\ tops' = <<getTimeTop(dates[1]), getTimeTop(dates[2])>>
    /\ pc' = "returned"
    /\ UNCHANGED <<intakes, groupedByDay, currentTime, zoomLevel,
                   expandedClusters, now, items, solved, dates,
                   clusters, zooms, ticks, rendered,
                   snapshots, toggle>>

TimeNext == CallGetTimeTop

TimeSpec == TimeInit /\ [][TimeNext]_vars

----------------------------------------------------------------------------
(* The tick planner of the day ruler, lines 548-596: the first row whose   *)
(* threshold is not below the zoom level gives the tick and the label      *)
(* interval, in minutes.  Thresholds are in thousandths (0.375 = 375).     *)

TICK_TABLE ==
    << [upTo |-> 375,   tickInterval |-> 60, labelInterval |-> 180],
       [upTo |-> 625,   tickInterval |-> 30, labelInterval |-> 180],
       [upTo |-> 875,   tickInterval |-> 30, labelInterval |-> 180],
       [upTo |-> 1375,  tickInterval |-> 15, labelInterval |-> 120],
       [upTo |-> 1750,  tickInterval |-> 15, labelInterval |-> 120],
       [upTo |-> 2250,  tickInterval |-> 15, labelInterval |-> 60],
       [upTo |-> 2750,  tickInterval |-> 15, labelInterval |-> 30],
       [upTo |-> 3250,  tickInterval |-> 10, labelInterval |-> 30],
       [upTo |-> 3750,  tickInterval |-> 10, labelInterval |-> 30],
       [upTo |-> 4250,  tickInterval |-> 5,  labelInterval |-> 15],
       [upTo |-> 4750,  tickInterval |-> 5,  labelInterval |-> 15],
       [upTo |-> 5750,  tickInterval |-> 1,  labelInterval |-> 10],
       [upTo |-> 7000,  tickInterval |-> 1,  labelInterval |-> 10],
       [upTo |-> 10000, tickInterval |-> 1,  labelInterval |-> 5] >>

\* the final else, lines 593-596
TICK_ELSE == [upTo |-> 0, tickInterval |-> 1, labelInterval |-> 1]

\* the branch of the if / else-if chain taken at zoom z (in hundredths)
tickRow(z) ==
    LET fits == {r \in DOMAIN TICK_TABLE : 10 * z <= TICK_TABLE[r].upTo}
    IN  IF fits = {} THEN TICK_ELSE
        ELSE TICK_TABLE[CHOOSE r \in fits : \A q \in fits : r <= q]

\* a slip of lines 572-585: the 10-minute and the 5-minute rows are swapped
tickIntervalSwapped(z) ==
    IF 10 * z > 2750 /\ 10 * z <= 3750 THEN 5
    ELSE IF 10 * z > 3750 /\ 10 * z <= 4750 THEN 10
    ELSE tickRow(z).tickInterval

\* a slip of line 568: the row up to 2.25 keeps the two-hour labels
labelIntervalCoarse(z) ==
    IF 10 * z > 1750 /\ 10 * z <= 2250 THEN 120
    ELSE tickRow(z).labelInterval

\* a slip of lines 572-577: the rows up to 3.75 label every 25 minutes
labelIntervalOffGrid(z) ==
    IF 10 * z > 2750 /\ 10 * z <= 3750 THEN 25
    ELSE tickRow(z).labelInterval

tickInterval(z) == tickRow(z).tickInterval

labelInterval(z) == tickRow(z).labelInterval

\* lines 598-606: one marker per step of the loop
\* for (mins = 0; mins < 1440; mins += tick), labelled where
\* mins % label = 0
generateMarkers(tick, label) ==
    LET count == (1440 + tick - 1) \div tick
    IN  array([k \in 1..count |->
                  LET mins == (k - 1) * tick
                  IN  [mins |-> mins, hour |-> mins \div 60, min |-> mins % 60,
                       showLabel |-> (mins % label = 0)]])

tickPlan(z) ==
    [tickInterval |-> tickInterval(z), labelInterval |-> labelInterval(z),
     markers |-> generateMarkers(tickInterval(z), labelInterval(z))]

----------------------------------------------------------------------------
(* TickSpec: the tick plan drawn at two zoom levels *)

TickInit ==
    /\ snapshots = <<>>
    /\ toggle = <<>>
    /\ zooms \in ZoomValues \X ZoomValues
    /\ ticks = <<>>
    /\ pc = "call"
    /\ zoomLevel = 100
    /\ intakes = <<>>
    /\ now = Date(MountDay, 43200)
    /\ currentTime = now
    /\ groupedByDay = <<>>
    /\ expandedClusters = {}
    /\ items = <<>>
    /\ solved = <<>>
    /\ dates = <<>>
    /\ tops = <<>>
    /\ clusters = <<>>
    /\ rendered = <<>>

CallTickPlan ==
    /\ pc = "call"
    /\ ticks' = <<tickPlan(zooms[1]), tickPlan(zooms[2])>>
    /\ pc' = "returned"
    /\ UNCHANGED <<intakes, groupedByDay, currentTime, zoomLevel,
                   expandedClusters, now, items, solved, dates, tops,
                   clusters, zooms, rendered,
                   snapshots, toggle>>

TickNext == CallTickPlan

TickSpec == TickInit /\ [][TickNext]_vars

----------------------------------------------------------------------------
(* RenderSpec: one render of the component for an event list in query      *)
(* order, a zoom level and an expansion set left by earlier clicks.        *)

\* days and times of day of the events: 10:00, 10:20 and 22:00
RenderTimes == {36000, 37200, 79200}

RenderStamps ==
    {Date(MountDay, t) : t \in RenderTimes}
        \cup {Date(0, t) : t \in RenderTimes \ {79200}}

RenderInputs ==
    UNION {{[i \in 1..n |->
               [id |-> IdPool[i], patientId |-> q[i], subtype |-> "",
                timestamp |-> l[i]]] :
               <<l, q>> \in {m \in [1..n -> RenderStamps] : isNewestFirst(m)}
                                \X [1..n -> Lanes]} :
           n \in 0..MaxRender}

\* zoom levels of the renders: 0.5x, 1x and 2x
RenderZooms == {50, 100, 200}

\* keys an earlier click can have stored
RenderKeys == {"a_b", "a_c", "b_c", "a_b_c"}

RenderInit ==
    /\ snapshots = <<>>
    /\ toggle = <<>>
    /\ intakes \in RenderInputs
    /\ zoomLevel \in RenderZooms
    /\ expandedClusters \in SUBSET RenderKeys
    /\ now = Date(MountDay, 43200)
    /\ currentTime = now
    /\ groupedByDay = <<>>
    /\ rendered = <<>>
    /\ pc = "call"
    /\ items = <<>>
    /\ solved = <<>>
    /\ dates = <<>>
    /\ tops = <<>>
    /\ clusters = <<>>
    /\ zooms = <<>>
    /\ ticks = <<>>

\* the groupedByDay memo, then the body of sortedDays.map
Render ==
    /\ pc = "call"
    /\ groupedByDay' = groupByDay(intakes, now)
    /\ rendered' = renderDays(groupedByDay')
    /\ pc' = "returned"
    /\ UNCHANGED <<intakes, currentTime, zoomLevel, expandedClusters, now,
                   items, solved, dates, tops, clusters, zooms, ticks,
                   snapshots, toggle>>

RenderNext == Render

RenderSpec == RenderInit /\ [][RenderNext]_vars

----------------------------------------------------------------------------
(* SnapshotSpec: the mounted component receiving arbitrary snapshots of a  *)
(* small collection, at some zoom level and expansion set.                 *)

SnapshotIds == {"a", "b"}

SnapshotStamps == {Date(MountDay, 36000), NoTimestamp}

SnapshotDocs == [id : SnapshotIds, patientId : {"AH"}, timestamp : SnapshotStamps]

\* the snapshots of every state of the collection, in query order
SnapshotInputs ==
    {queryOrder(docSet) :
        docSet \in {S \in SUBSET SnapshotDocs :
                       \A d, e \in S : d.id = e.id => d = e}}

SnapshotInit ==
    /\ snapshots = <<>>
    /\ toggle = <<>>
    /\ intakes = <<>>
    /\ now = Date(MountDay, 43200)
    /\ currentTime = now
    /\ zoomLevel \in {ZOOM_LEVELS[1], 100, ZOOM_LEVELS[Len(ZOOM_LEVELS)]}
    /\ expandedClusters \in SUBSET {"a_b"}
    /\ groupedByDay = groupByDay(<<>>, now)
    /\ items = <<>>
    /\ solved = <<>>
    /\ dates = <<>>
    /\ tops = <<>>
    /\ clusters = <<>>
    /\ zooms = <<>>
    /\ ticks = <<>>
    /\ rendered = <<>>
    /\ pc = "mounted"

\* the store delivers a snapshot and the onSnapshot callback runs
StoreSnapshot ==
    /\ pc = "mounted"
    /\ Len(snapshots) < MaxSnapshots
    /\ \E docs \in SnapshotInputs :
           /\ snapshots' = Append(snapshots, docs)
           /\ setIntakes(docs)
    /\ UNCHANGED <<currentTime, zoomLevel, expandedClusters, now, items,
                   solved, pc, dates, tops, clusters, zooms, ticks,
                   rendered, toggle>>

SnapshotNext == StoreSnapshot

SnapshotSpec == SnapshotInit /\ [][SnapshotNext]_vars

----------------------------------------------------------------------------
(* UserSpec: the mounted component showing one day of one lane, under the  *)
(* user's actions (zoom buttons, zoom select, cluster clicks) and          *)
(* snapshots that replace the day's events.                                *)

\* times of day of the events: 10:00, 10:20 and 22:00
UserTimes == {36000, 37200, 79200}

UserInputs ==
    UNION {{[i \in 1..n |->
               [id |-> IdPool[i], patientId |-> "AH", timestamp |-> l[i]]] :
               l \in {m \in [1..n -> {Date(MountDay, t) : t \in UserTimes}] :
                         isNewestFirst(m)}} :
           n \in 0..MaxUser}

UserInit ==
    /\ snapshots = <<>>
    /\ toggle = <<>>
    /\ intakes \in UserInputs
    /\ now = Date(MountDay, 43200)
    /\ currentTime = now
    /\ zoomLevel = 100
    /\ expandedClusters = {}
    /\ groupedByDay = groupByDay(intakes, now)
    /\ items = <<>>
    /\ solved = <<>>
    /\ dates = <<>>
    /\ tops = <<>>
    /\ clusters = <<>>
    /\ zooms = <<>>
    /\ ticks = <<>>
    /\ rendered = <<>>
    /\ pc = "mounted"

UserSnapshot == \E docs \in UserInputs : OnSnapshot(docs)

UserNext ==
    \/ zoomIn
    \/ zoomOut
    \/ SelectZoom
    \/ toggleExpand
    \/ UserSnapshot

UserSpec == UserInit /\ [][UserNext]_vars

----------------------------------------------------------------------------
(* CardSpec: one render of a single day whose events are lane events,      *)
(* events of no patient ("NO") and lane events of subtype LOST.            *)

\* who an event belongs to and its subtype
CardKinds ==
    {[patientId |-> "AH", subtype |-> ""], [patientId |-> "EI", subtype |-> ""],
     [patientId |-> "NO", subtype |-> ""], [patientId |-> "AH", subtype |-> "LOST"]}

CardInputs ==
    UNION {{[i \in 1..n |->
               [id |-> IdPool[i], patientId |-> q[i].patientId,
                subtype |-> q[i].subtype, timestamp |-> l[i]]] :
               <<l, q>> \in {m \in [1..n -> {Date(MountDay, t) : t \in RenderTimes}] :
                               isNewestFirst(m)}
                                \X [1..n -> CardKinds]} :
           n \in 0..MaxCards}

CardInit ==
    /\ snapshots = <<>>
    /\ toggle = <<>>
    /\ intakes \in CardInputs
    /\ zoomLevel \in {100, 200}
    /\ expandedClusters \in SUBSET {"a_b", "a_b_c"}
    /\ now = Date(MountDay, 43200)
    /\ currentTime = now
    /\ groupedByDay = <<>>
    /\ rendered = <<>>
    /\ pc = "call"
    /\ items = <<>>
    /\ solved = <<>>
    /\ dates = <<>>
    /\ tops = <<>>
    /\ clusters = <<>>
    /\ zooms = <<>>
    /\ ticks = <<>>

CardNext == Render

CardSpec == CardInit /\ [][CardNext]_vars

----------------------------------------------------------------------------
(* ToggleSpec: the updater of toggleExpand applied, once and again, for    *)
(* one cluster key to an expansion set.                                    *)

ToggleInit ==
    /\ snapshots = <<>>
    /\ expandedClusters \in SUBSET RenderKeys
    /\ \E key \in RenderKeys : toggle = [key |-> key, prev |-> expandedClusters]
    /\ pc = "call"
    /\ intakes = <<>>
    /\ now = Date(MountDay, 43200)
    /\ currentTime = now
    /\ zoomLevel = 100
    /\ groupedByDay = <<>>
    /\ items = <<>>
    /\ solved = <<>>
    /\ dates = <<>>
    /\ tops = <<>>
    /\ clusters = <<>>
    /\ zooms = <<>>
    /\ ticks = <<>>
    /\ rendered = <<>>

CallToggle ==
    /\ pc \in {"call", "once"}
    /\ expandedClusters' = toggled(expandedClusters, toggle.key)
    /\ pc' = IF pc = "call" THEN "once" ELSE "twice"
    /\ UNCHANGED <<intakes, groupedByDay, currentTime, zoomLevel, now, items,
                   solved, dates, tops, clusters, zooms, ticks, rendered,
                   snapshots, toggle>>

ToggleNext == CallToggle

ToggleSpec == ToggleInit /\ [][ToggleNext]_vars

----------------------------------------------------------------------------
(* ClusterSpec: computeClusters called on the intakes of one day bucket,   *)
(* for one lane, at one zoom level.  A bucket keeps the query order of its *)
(* events, newest first.                                                   *)

\* times of day of the events: 10:00:00, 10:00:30, 10:19, 10:20, 10:38 and
\* 22:00 (38 minutes are 38 px at 1x, 19 minutes are 38 px at 2x)
ClusterTimes == {36000, 36030, 37140, 37200, 38280, 79200}

ClusterStamps == {Date(MountDay, t) : t \in ClusterTimes}

ClusterInputs ==
    UNION {{[i \in 1..n |->
               [id |-> IdPool[i], patientId |-> q[i], timestamp |-> l[i]]] :
               <<l, q>> \in {m \in [1..n -> ClusterStamps] : isNewestFirst(m)}
                                \X [1..n -> Lanes]} :
           n \in 0..MaxCluster}

ClusterInit ==
    /\ snapshots = <<>>
    /\ toggle = <<>>
    /\ intakes \in ClusterInputs
    /\ zoomLevel \in ZoomValues
    /\ clusters = <<>>
    /\ pc = "call"
    /\ now = Date(MountDay, 43200)
    /\ currentTime = now
    /\ groupedByDay = <<>>
    /\ expandedClusters = {}
    /\ items = <<>>
    /\ solved = <<>>
    /\ dates = <<>>
    /\ tops = <<>>
    /\ zooms = <<>>
    /\ ticks = <<>>
    /\ rendered = <<>>

CallComputeClusters ==
    /\ pc = "call"
    /\ \E patientId \in Lanes :
           clusters' = [patientId |-> patientId,
                        result |-> computeClusters(intakes, patientId)]
    /\ pc' = "returned"
    /\ UNCHANGED <<intakes, groupedByDay, currentTime, zoomLevel,
                   expandedClusters, now, items, solved, dates, tops,
                   zooms, ticks, rendered,
                   snapshots, toggle>>

ClusterNext == CallComputeClusters

ClusterSpec == ClusterInit /\ [][ClusterNext]_vars

----------------------------------------------------------------------------
abs(x) == IF x < 0 THEN -x ELSE x

RECURSIVE sumPanelY(_)
sumPanelY(its) ==
    IF its = <<>> THEN 0 ELSE Head(its).panelY + sumPanelY(Tail(its))

\* C1: for n >= 2 items sorted ascending by dotY, every adjacent pair of the
\* returned positions satisfies panelY[i] - panelY[i-1] >= PANEL_H, up to the
\* rounding tolerance.
C1_LayoutSeparation ==
    (pc = "returned" /\ Len(items) >= 2) =>
        \A i \in 2..Len(solved) :
            solved[i].panelY - solved[i - 1].panelY >= PANEL_H * PX - RoundTol

\* C2: solveLayout on 0 items returns the empty list, and on exactly 1 item
\* returns that item, its fields unchanged, with panelY equal to its dotY.
C2_LayoutSpecialCases ==
    pc = "returned" =>
        /\ Len(items) = 0 => solved = <<>>
        /\ Len(items) = 1 =>
              solved = <<[dotY |-> items[1].dotY, intake |-> items[1].intake,
                          panelY |-> items[1].dotY]>>

C2_Witness ==
    pc = "returned" /\ Len(items) = 1 /\ items[1].dotY = 1300 * PX

\* C4: for n >= 2 items the mean of the returned positions stays within
\* PANEL_H / 2 of the mean of the true ordinates, and when all true ordinates
\* equal c the returned stack is symmetric about c.
C4_CentroidAnchored ==
    (pc = "returned" /\ Len(items) >= 2) =>
        LET n == Len(items)
        IN  /\ 2 * abs(sumPanelY(solved) - sumDotY(items))
                  <= n * (PANEL_H * PX + 2 * RoundTol)
            /\ (\A i \in 1..n : items[i].dotY = items[1].dotY) =>
                  \A i \in 1..n :
                      abs(solved[i].panelY + solved[n + 1 - i].panelY
                            - 2 * items[1].dotY) <= 2 * RoundTol

----------------------------------------------------------------------------
(* Claims on the day grouper, under GroupSpec *)

today == getStartOfDay(now)

bucketDates == {groupedByDay[b].date : b \in DOMAIN groupedByDay}

eventDays == {getStartOfDay(intakes[i].timestamp) : i \in DOMAIN intakes}

\* the calendar days from the earliest event's day through today
daysThroughToday ==
    {Date(d, 0) : d \in {e \in 0..today.day :
                             \E i \in DOMAIN intakes :
                                 intakes[i].timestamp.day <= e}}

C8_DayGroupingShape ==
    pc = "returned" =>
        /\ today \in bucketDates
        /\ \A b \in 1..(Len(groupedByDay) - 1) :
               getTime(groupedByDay[b].date) > getTime(groupedByDay[b + 1].date)
        /\ \A i \in DOMAIN intakes :
               LET places == {<<b, k>> \in (DOMAIN groupedByDay) \X (DOMAIN intakes) :
                                 /\ k \in DOMAIN groupedByDay[b].intakes
                                 /\ groupedByDay[b].intakes[k] = intakes[i]}
               IN  /\ Cardinality(places) = 1
                   /\ \A p \in places :
                          groupedByDay[p[1]].date
                              = getStartOfDay(intakes[i].timestamp)

C8_Witness ==
    /\ pc = "returned"
    /\ Len(intakes) = 3
    /\ Len(groupedByDay) = 3
    /\ today \notin eventDays

\* C9: an event on a day after today is grouped into a bucket for its own
\* day, and a bucket for a day later than today exists only if at least one
\* event falls on that day.
C9_FutureDays ==
    pc = "returned" =>
        /\ \A i \in DOMAIN intakes :
               intakes[i].timestamp.day > today.day =>
                   \E b \in DOMAIN groupedByDay :
                       /\ groupedByDay[b].date
                              = getStartOfDay(intakes[i].timestamp)
                       /\ \E k \in DOMAIN groupedByDay[b].intakes :
                              groupedByDay[b].intakes[k] = intakes[i]
        /\ \A b \in DOMAIN groupedByDay :
               groupedByDay[b].date.day > today.day =>
                   groupedByDay[b].date \in eventDays

C9_Witness ==
    /\ pc = "returned"
    /\ today.day = 2
    /\ \E i \in DOMAIN intakes : intakes[i].timestamp.day = 3
    /\ Date(3, 0) \in bucketDates

\* C10: for a fixed today, grouping the flattened events of the output
\* buckets again yields the same list of buckets.
C10_GroupingIdempotent ==
    pc = "returned" => groupByDay(flatten(groupedByDay), now) = groupedByDay

C10_Witness ==
    /\ pc = "returned"
    /\ Len(groupedByDay) >= 2
    /\ \E b \in DOMAIN groupedByDay : Len(groupedByDay[b].intakes) >= 2

----------------------------------------------------------------------------
(* Claim on the rendered lanes, under Spec *)

\* C3: in every lane of every day, a card whose true ordinate is farther than
\* PANEL_H from the true ordinate of every other card laid out with it is
\* placed at its true ordinate.
C3_IsolatedItemsStayPut ==
    \A b \in DOMAIN groupedByDay : \A p \in Lanes :
        LET cards == laneCards(groupedByDay[b], p)
        IN  \A i \in DOMAIN cards :
                (\A j \in DOMAIN cards \ {i} :
                    abs(cards[i].dotY - cards[j].dotY) > PANEL_H * PX)
                => abs(cards[i].panelY - cards[i].dotY) <= RoundTol

----------------------------------------------------------------------------
(* Claims on the time mapper, under TimeSpec *)

minuteOfDay(date) == getHours(date) * 60 + getMinutes(date)

\* C5 (as claimed): of two events on the same calendar day, the one earlier
\* in the day has the strictly greater ordinate, at every zoom level.
C5_StrictlyDecreasingInTime ==
    (pc = "returned" /\ dates[1].day = dates[2].day
                    /\ dates[1].sec < dates[2].sec)
        => tops[1] > tops[2]

\* C5 (amended): at every zoom level, of two timestamps on the same calendar
\* day the one with the smaller minute of the day (hours * 60 + minutes) has
\* the strictly greater ordinate, and two timestamps within the same minute
\* have the same ordinate: the seconds are ignored.
C5_StrictlyDecreasingInMinutes ==
    (pc = "returned" /\ dates[1].day = dates[2].day) =>
        /\ minuteOfDay(dates[1]) < minuteOfDay(dates[2]) => tops[1] > tops[2]
        /\ minuteOfDay(dates[1]) = minuteOfDay(dates[2]) => tops[1] = tops[2]

C5_Witness ==
    /\ pc = "returned"
    /\ zoomLevel = 25
    /\ dates[1].day = dates[2].day
    /\ dates[1].sec < dates[2].sec
    /\ minuteOfDay(dates[1]) = minuteOfDay(dates[2])
    /\ tops[1] = tops[2]

\* C6: when the zoom level z and 2z are both zoom levels, every ordinate and
\* the day height at 2z are twice those at z; and at every zoom level
\* ordinate / dayHeight is (1440 - minuteOfDay) / 1440, the same for every
\* zoom level.
C6_ZoomScaling ==
    pc = "returned" =>
        \A k \in 1..2 :
            /\ \A z2 \in ZoomValues :
                   z2 = 2 * zoomLevel =>
                       /\ getTimeTopAt(dates[k], z2) = 2 * tops[k]
                       /\ dayViewportHeightAt(z2) = 2 * DAY_VIEWPORT_HEIGHT_PX
            /\ tops[k] * BASE_DAY_HEIGHT_PX
                  = (BASE_DAY_HEIGHT_PX - minuteOfDay(dates[k]))
                        * DAY_VIEWPORT_HEIGHT_PX

C6_Witness ==
    /\ pc = "returned"
    /\ zoomLevel = 500
    /\ 2 * zoomLevel \in ZoomValues
    /\ minuteOfDay(dates[1]) = 600
    /\ tops[1] = 2 * getTimeTopAt(dates[1], 250)

----------------------------------------------------------------------------
(* Claims on the mounted component, under Spec *)

\* C11: once the one-minute timer has fired on the current calendar day
\* (currentTime lies on the day of the wall clock), the displayed buckets
\* include a bucket for that day, whether or not a snapshot has arrived
\* since midnight.
C11_RolloverRecomputed ==
    getStartOfDay(currentTime) = today => today \in bucketDates

\* the clusters computed by the current render, over all buckets and lanes
renderedClusters ==
    LET ofLane(b, p) == laneItems(groupedByDay[b], p)
        all == UNION {{ofLane(t[1], t[2])[k] : k \in DOMAIN ofLane(t[1], t[2])} :
                         t \in (DOMAIN groupedByDay) \X Lanes}
    IN  {item \in all : item.type = "cluster"}

memberIds(item) == {item.intakes[k].id : k \in DOMAIN item.intakes}

\* line 958: isExpanded
isExpanded(item) == clusterKey(item) \in expandedClusters

\* the keys ids.join("_") takes over the orderings of a cluster's members
keysOfMembers(item) ==
    LET ids == memberIds(item)
        n == Cardinality(ids)
        orders == {l \in [1..n -> ids] : \A i, j \in 1..n : l[i] = l[j] => i = j}
    IN  {joinIds([k \in 1..n |-> [id |-> l[k]]]) : l \in orders}

\* C18: a rendered cluster is recognised as expanded whenever the expansion
\* set holds the key stored for a cluster of the same member ids, whatever
\* order the members were listed in when the key was stored.
C18_KeyIsMemberSet ==
    \A c \in renderedClusters :
        (keysOfMembers(c) \cap expandedClusters # {}) => isExpanded(c)

----------------------------------------------------------------------------
(* Claims on the clusterer, under ClusterSpec *)

\* the events an output item stands for
membersOf(item) ==
    IF item.type = "single" THEN <<item.intake>> ELSE item.intakes

RECURSIVE concatMembers(_)
concatMembers(result) ==
    IF result = <<>> THEN <<>>
    ELSE membersOf(Head(result)) \o concatMembers(Tail(result))

\* the index of the output item that holds the k-th scanned event
RECURSIVE itemOfMember(_, _)
itemOfMember(result, k) ==
    IF k <= Len(membersOf(Head(result))) THEN 1
    ELSE 1 + itemOfMember(Tail(result), k - Len(membersOf(Head(result))))

\* the events of the lane the call was made for, in the bucket's order
laneEvents ==
    SelectSeq(intakes, LAMBDA i : i.patientId = clusters.patientId)

\* C12: every event of the lane appears in exactly one output item, no
\* event of another lane appears, and the members of all output items,
\* concatenated in output order, are the lane's events in scan order:
\* timestamp descending, true ordinate non-decreasing.
C12_ClusterPartition ==
    pc = "returned" =>
        LET flat == concatMembers(clusters.result)
        IN  /\ \A i \in DOMAIN intakes :
                   Cardinality({k \in DOMAIN flat : flat[k] = intakes[i]})
                       = IF intakes[i].patientId = clusters.patientId
                         THEN 1 ELSE 0
            /\ Len(flat) = Len(laneEvents)
            /\ flat = laneEvents
            /\ \A k \in 1..(Len(flat) - 1) :
                   /\ getTime(flat[k].timestamp)
                          >= getTime(flat[k + 1].timestamp)
                   /\ getTimeTop(flat[k].timestamp)
                          <= getTimeTop(flat[k + 1].timestamp)

C12_Witness ==
    /\ pc = "returned"
    /\ Len(intakes) = 3
    /\ Len(laneEvents) = 2
    /\ Len(clusters.result) = 1
    /\ intakes[2].patientId # clusters.patientId

\* C13: two events adjacent in scan order are in the same output item if
\* and only if the ordinate of the later-scanned one minus the ordinate of
\* the one before it is strictly below the cluster threshold; so equal
\* ordinates always share an item.
C13_ClusterBoundaries ==
    pc = "returned" =>
        LET flat == concatMembers(clusters.result)
        IN  \A k \in 1..(Len(flat) - 1) :
                LET gap == getTimeTop(flat[k + 1].timestamp)
                               - getTimeTop(flat[k].timestamp)
                IN  (itemOfMember(clusters.result, k)
                         = itemOfMember(clusters.result, k + 1))
                    <=> (gap < CLUSTER_THRESHOLD_PX * PX)

\* a chain: three events in one cluster whose ends are a threshold apart
C13_Witness ==
    /\ pc = "returned"
    /\ Len(clusters.result) = 1
    /\ clusters.result[1].type = "cluster"
    /\ Len(clusters.result[1].intakes) = 3
    /\ getTimeTop(clusters.result[1].intakes[3].timestamp)
          - getTimeTop(clusters.result[1].intakes[1].timestamp)
          = CLUSTER_THRESHOLD_PX * PX

\* C14: every output item of type cluster has at least 2 members, every
\* other item is a single, and a lane without events in the bucket yields
\* the empty result.
C14_NoDegenerateClusters ==
    pc = "returned" =>
        /\ \A g \in DOMAIN clusters.result :
               \/ clusters.result[g].type = "single"
               \/ /\ clusters.result[g].type = "cluster"
                  /\ Len(clusters.result[g].intakes) >= 2
        /\ laneEvents = <<>> => clusters.result = <<>>

C14_Witness ==
    /\ pc = "returned"
    /\ Len(clusters.result) = 2
    /\ clusters.result[1].type = "single"
    /\ clusters.result[2].type = "cluster"

\* C15: the lastTime of every output cluster is the maximum timestamp of
\* its members.
C15_ClusterLastTime ==
    pc = "returned" =>
        \A g \in DOMAIN clusters.result :
            clusters.result[g].type = "cluster" =>
                LET c == clusters.result[g]
                IN  /\ \E m \in DOMAIN c.intakes :
                           c.intakes[m].timestamp = c.lastTime
                    /\ \A m \in DOMAIN c.intakes :
                           getTime(c.intakes[m].timestamp)
                               <= getTime(c.lastTime)

\* two members within one minute: equal ordinates, different timestamps
C15_Witness ==
    /\ pc = "returned"
    /\ \E g \in DOMAIN clusters.result :
           /\ clusters.result[g].type = "cluster"
           /\ clusters.result[g].lastTime = Date(MountDay, 36030)
           /\ \E m \in DOMAIN clusters.result[g].intakes :
                  clusters.result[g].intakes[m].timestamp
                      = Date(MountDay, 36000)

----------------------------------------------------------------------------
(* Claims on the tick planner, under TickSpec *)

\* C16: of two zoom levels the higher has a tick interval and a label
\* interval no greater than the lower; the lowest zoom level has hourly
\* ticks (60 min) and the highest has per-minute ticks (1 min).
C16_TickPlanMonotone ==
    pc = "returned" =>
        /\ zooms[1] <= zooms[2] =>
               /\ ticks[1].tickInterval >= ticks[2].tickInterval
               /\ ticks[1].labelInterval >= ticks[2].labelInterval
        /\ \A k \in 1..2 :
               /\ zooms[k] = ZOOM_LEVELS[1] => ticks[k].tickInterval = 60
               /\ zooms[k] = ZOOM_LEVELS[Len(ZOOM_LEVELS)]
                      => ticks[k].tickInterval = 1

C16_Witness ==
    /\ pc = "returned"
    /\ zooms = <<ZOOM_LEVELS[1], ZOOM_LEVELS[Len(ZOOM_LEVELS)]>>
    /\ ticks[1].tickInterval = 60
    /\ ticks[2].tickInterval = 1

\* C17 (as claimed): the tick interval at 2x is half the tick interval at
\* 1x.
C17_TickIntervalHalved ==
    (pc = "returned" /\ zooms = <<100, 200>>) =>
        2 * ticks[2].tickInterval = ticks[1].tickInterval

\* C17 (amended): from 1x to 2x the tick interval stays at 15 minutes and
\* the label interval is halved, from 120 to 60 minutes.
C17_LabelIntervalHalved ==
    (pc = "returned" /\ zooms = <<100, 200>>) =>
        /\ ticks[1].tickInterval = 15
        /\ ticks[2].tickInterval = 15
        /\ ticks[1].labelInterval = 120
        /\ 2 * ticks[2].labelInterval = ticks[1].labelInterval

C17_Witness ==
    /\ pc = "returned"
    /\ zooms = <<100, 200>>
    /\ ticks[2].labelInterval = 60

----------------------------------------------------------------------------
(* Claims on the rendered lanes, under RenderSpec *)

emptyLane == [items |-> <<>>, nodes |-> <<>>, cards |-> <<>>]

\* what a render shows in lane patientId on the day `date`
laneOn(view, date, patientId) ==
    IF \E b \in DOMAIN view : view[b].date = date
    THEN view[CHOOSE b \in DOMAIN view : view[b].date = date].lanes[patientId]
    ELSE emptyLane

\* the render of a list of events at the current zoom and expansion set
renderOf(list) == renderDays(groupByDay(list, now))

\* C19: in every day, what lane p shows (clusters, cluster nodes, display
\* ordinates of the cards) is what it shows when the events of the other
\* lane are removed; every member of a cluster of lane p and every card of
\* lane p is an event of lane p.
C19_LaneIndependence ==
    pc = "returned" =>
        \A p \in Lanes :
            LET own == SelectSeq(intakes, LAMBDA i : i.patientId = p)
                alone == renderOf(own)
            IN  \A b \in DOMAIN rendered :
                    LET lane == rendered[b].lanes[p]
                    IN  /\ lane = laneOn(alone, rendered[b].date, p)
                        /\ \A k \in DOMAIN lane.cards :
                               lane.cards[k].intake.patientId = p
                        /\ \A k \in DOMAIN lane.items :
                               \A m \in DOMAIN membersOf(lane.items[k]) :
                                   membersOf(lane.items[k])[m].patientId = p

\* two cards of one lane close enough to push each other, and an event of
\* the other lane between them
C19_Witness ==
    /\ pc = "returned"
    /\ \E b \in DOMAIN rendered :
           /\ Len(rendered[b].lanes["AH"].cards) = 2
           /\ rendered[b].lanes["AH"].cards[2].dotY
                  - rendered[b].lanes["AH"].cards[1].dotY < PANEL_H * PX
           /\ rendered[b].lanes["AH"].cards[2].panelY
                  > rendered[b].lanes["AH"].cards[2].dotY
           /\ Len(rendered[b].lanes["EI"].cards) = 1
           /\ rendered[b].lanes["EI"].cards[1].dotY
                  = rendered[b].lanes["AH"].cards[2].dotY

\* C20: what a day shows in each lane is what it shows when the events of
\* every other day are removed.
C20_DayIndependence ==
    pc = "returned" =>
        \A b \in DOMAIN rendered :
            LET date == rendered[b].date
                own == SelectSeq(intakes,
                           LAMBDA i : getStartOfDay(i.timestamp) = date)
                alone == renderOf(own)
            IN  \A p \in Lanes :
                    rendered[b].lanes[p] = laneOn(alone, date, p)

\* two days with events of one lane at the same time of day
C20_Witness ==
    /\ pc = "returned"
    /\ Len(rendered) = 2
    /\ Len(rendered[1].lanes["AH"].cards) = 1
    /\ Len(rendered[2].lanes["AH"].nodes) = 1
    /\ rendered[1].lanes["AH"].cards[1].dotY
           = getTimeTop(rendered[2].lanes["AH"].nodes[1].lastTime)

----------------------------------------------------------------------------
(* Claim on snapshot processing, under SnapshotSpec *)

latestSnapshot == snapshots[Len(snapshots)]

\* the working list holds the documents of `docs`, each once, in order
holdsExactly(docs) ==
    /\ Len(intakes) = Len(docs)
    /\ \A k \in DOMAIN docs :
           /\ intakes[k].id = docs[k].id
           /\ intakes[k].patientId = docs[k].patientId
           /\ docs[k].timestamp # NoTimestamp
                  => intakes[k].timestamp = docs[k].timestamp
    /\ \A i, j \in DOMAIN intakes :
           intakes[i].id = intakes[j].id => i = j

\* C21: after any sequence of snapshots the working event list holds
\* exactly the documents of the most recent snapshot, each once; and a step
\* that processes a snapshot leaves the zoom level and the expansion set
\* unchanged.
C21_SnapshotReplacement ==
    /\ [](snapshots # <<>> => holdsExactly(latestSnapshot))
    /\ [][snapshots' # snapshots =>
              /\ zoomLevel' = zoomLevel
              /\ expandedClusters' = expandedClusters]_vars

\* a document of the first snapshot is gone from the second
C21_Witness ==
    /\ Len(snapshots) = 2
    /\ Len(snapshots[1]) = 2
    /\ Len(snapshots[2]) = 1
    /\ snapshots[2][1].id = "b"
    /\ \A k \in DOMAIN intakes : intakes[k].id # "a"
    /\ zoomLevel = ZOOM_LEVELS[Len(ZOOM_LEVELS)]
    /\ expandedClusters = {"a_b"}

----------------------------------------------------------------------------
(* Claim on the separation of the visible items, under RenderSpec *)

\* the display ordinates of the visible items of a rendered lane: the
\* panels of the cards, then the nodes of the collapsed clusters
visibleOrdinates(lane) ==
    array([k \in DOMAIN lane.cards |-> lane.cards[k].panelY])
        \o array([k \in DOMAIN lane.nodes |-> lane.nodes[k].topPx])

\* C22: in every lane of every day, any two visible items (card panels and
\* collapsed cluster nodes) are at least PANEL_H apart in display ordinate,
\* up to the rounding tolerance.
C22_VisibleSeparation ==
    pc = "returned" =>
        \A b \in DOMAIN rendered : \A p \in Lanes :
            LET ys == visibleOrdinates(rendered[b].lanes[p])
            IN  \A i, j \in DOMAIN ys :
                    i < j => abs(ys[i] - ys[j]) >= PANEL_H * PX - RoundTol

----------------------------------------------------------------------------
(* Claims on the user's actions, under UserSpec *)

highestLevel == CHOOSE z \in ZoomValues : \A y \in ZoomValues : y <= z

lowestLevel == CHOOSE z \in ZoomValues : \A y \in ZoomValues : z <= y

\* the next higher zoom level, the level itself at the highest
levelAbove(z) ==
    IF z = highestLevel THEN z
    ELSE CHOOSE y \in ZoomValues :
             y > z /\ \A x \in ZoomValues : x > z => y <= x

\* the next lower zoom level, the level itself at the lowest
levelBelow(z) ==
    IF z = lowestLevel THEN z
    ELSE CHOOSE y \in ZoomValues :
             y < z /\ \A x \in ZoomValues : x < z => x <= y

\* C23: the zoom level is always one of the 17 values of ZOOM_LEVELS; a
\* zoomIn step moves to the next higher level (none at the highest), a
\* zoomOut step to the next lower level (none at the lowest), and the level
\* reached by zoomIn from below the highest has the previous level as its
\* next lower level, so that zoomOut restores it.
C23_ZoomStaysDiscrete ==
    /\ [](zoomLevel \in ZoomValues /\ Cardinality(ZoomValues) = 17)
    /\ [][/\ zoomIn => /\ zoomLevel' = levelAbove(zoomLevel)
                       /\ zoomLevel # highestLevel
                              => levelBelow(zoomLevel') = zoomLevel
          /\ zoomOut => zoomLevel' = levelBelow(zoomLevel)]_vars

C23_Witness ==
    /\ pc = "mounted"
    /\ zoomLevel = highestLevel
    /\ levelAbove(zoomLevel) = zoomLevel
    /\ intakes # <<>>

\* what a lane shows of a cluster: its members as cards, and no node
shownExpanded(c) ==
    \E b \in DOMAIN groupedByDay : \E p \in Lanes :
        LET cards == laneCards(groupedByDay[b], p)
            nodes == laneNodes(groupedByDay[b], p)
        IN  /\ \A m \in DOMAIN c.intakes :
                   \E k \in DOMAIN cards : cards[k].intake = c.intakes[m]
            /\ \A k \in DOMAIN nodes : clusterKey(nodes[k]) # clusterKey(c)

\* C25: no step removes a key from expandedClusters, and every cluster
\* formed by the current render whose key is in expandedClusters is shown
\* expanded.
C25_ExpansionOnlyGrows ==
    /\ [][expandedClusters \subseteq expandedClusters']_vars
    /\ [](\A c \in renderedClusters : isExpanded(c) => shownExpanded(c))

\* a key that stays stored while its cluster is split by the zoom
C25_Witness ==
    /\ pc = "mounted"
    /\ "a_b" \in expandedClusters
    /\ zoomLevel = 200
    /\ renderedClusters = {}
    /\ Len(intakes) = 2

----------------------------------------------------------------------------
(* Claim on the toggle updater, under ToggleSpec *)

\* C24: toggleExpand for key k applied to the set S yields S with k added
\* if k was absent and S with k removed if k was present; the membership of
\* every other key is unchanged; applied twice it yields S.
C24_ToggleFlipsOneKey ==
    /\ pc = "once" =>
           /\ toggle.key \in toggle.prev
                  => expandedClusters = toggle.prev \ {toggle.key}
           /\ toggle.key \notin toggle.prev
                  => expandedClusters = toggle.prev \cup {toggle.key}
           /\ \A key \in RenderKeys \ {toggle.key} :
                  key \in expandedClusters <=> key \in toggle.prev
    /\ pc = "twice" => expandedClusters = toggle.prev

\* a present key removed from a set of several keys
C24_Witness ==
    /\ pc = "once"
    /\ toggle.key \in toggle.prev
    /\ toggle.key \notin expandedClusters
    /\ Cardinality(expandedClusters) >= 2

----------------------------------------------------------------------------
(* Claims on the relaxation loop, under LayoutSpec *)

\* what the claim says of one pass that starts from `panels`
sweepsAgree(panels) ==
    LET forward == pushDown(panels, 2)
        backward == pushUp(forward, Len(forward) - 1)
    IN  /\ \A i \in 2..Len(forward) :
               forward[i] - forward[i - 1] >= PANEL_H * PX
        /\ backward = forward
        /\ forward[1] = panels[1]
        /\ \A i \in DOMAIN panels : forward[i] >= panels[i]

\* the passes from number `pass` on, each starting from the panels the
\* pass before it left
RECURSIVE everyPassFrom(_, _, _)
everyPassFrom(panels, its, pass) ==
    \/ pass >= RELAX_PASSES
    \/ /\ sweepsAgree(panels)
       /\ everyPassFrom(relaxPass(panels, its), its, pass + 1)

\* C26: in every relaxation pass, after the forward sweep all adjacent gaps
\* are at least PANEL_H and the backward sweep changes no position; the
\* sweeps leave panels[0] alone and move no panel to a lower ordinate.
C26_BackwardSweepIdle ==
    (pc = "returned" /\ Len(items) >= 2) =>
        everyPassFrom(seedPanels(items), items, 0)

\* a call in which the forward sweep of the second pass moves a panel
C26_Witness ==
    /\ pc = "returned"
    /\ Len(items) = 4
    /\ pushDown(panelsAt(items, 1), 2) # panelsAt(items, 1)
    /\ panelsAt(items, RELAX_PASSES)[1] = solved[1].panelY

\* C27: for n >= 2 the output has the length, the items, the order and the
\* dotY of the input, its panelY are strictly increasing, and every
\* adjacent gap is at least 0.92 * PANEL_H, up to the rounding tolerance.
C27_OrderPreserved ==
    (pc = "returned" /\ Len(items) >= 2) =>
        /\ Len(solved) = Len(items)
        /\ \A i \in DOMAIN items :
               /\ solved[i].dotY = items[i].dotY
               /\ solved[i].intake = items[i].intake
        /\ \A i \in 2..Len(solved) :
               /\ solved[i].panelY > solved[i - 1].panelY
               /\ DAMPING_DEN * (solved[i].panelY - solved[i - 1].panelY)
                      >= (DAMPING_DEN - DAMPING_NUM) * PANEL_H * PX
                             - DAMPING_DEN * RoundTol

\* two equal dots: the gap is at the bound
C27_Witness ==
    /\ pc = "returned"
    /\ Len(items) = 2
    /\ items[1].dotY = items[2].dotY
    /\ DAMPING_DEN * (solved[2].panelY - solved[1].panelY)
           <= (DAMPING_DEN - DAMPING_NUM) * PANEL_H * PX
                  + DAMPING_DEN * RoundTol

----------------------------------------------------------------------------
(* Claim on clustering under zoom, under ClusterSpec *)

\* the pairs of events of the lane that share an output item
sameGroupPairs(result) ==
    UNION {{<<a, b>> : a, b \in {membersOf(result[g])[m] :
                                    m \in DOMAIN membersOf(result[g])}} :
           g \in DOMAIN result}

\* C28: for every zoom level above the one of the call, two events that
\* share a group there share a group at the zoom level of the call: the
\* grouping at the higher zoom level refines the grouping at the lower one.
C28_ZoomRefinesClusters ==
    pc = "returned" =>
        \A z \in ZoomValues :
            z > zoomLevel =>
                sameGroupPairs(computeClustersAt(intakes, clusters.patientId, z))
                    \subseteq sameGroupPairs(clusters.result)

\* a cluster of three at 1x that is split in two at 2x
C28_Witness ==
    /\ pc = "returned"
    /\ zoomLevel = 100
    /\ Len(clusters.result) = 1
    /\ Len(membersOf(clusters.result[1])) = 3
    /\ Len(computeClustersAt(intakes, clusters.patientId, 200)) = 2

----------------------------------------------------------------------------
(* Claim on the representation of the events, under CardSpec *)

\* how many times the render of a day represents the event e: as a card of
\* a lane, as a centre card, or as a member of a collapsed cluster node
representations(view, e) ==
    LET laneCardsOf(p) == {k \in DOMAIN view.lanes[p].cards :
                               view.lanes[p].cards[k].intake = e}
        laneNodesOf(p) ==
            {t \in (DOMAIN view.lanes[p].nodes) \X (1..Len(intakes)) :
                /\ t[2] \in DOMAIN view.lanes[p].nodes[t[1]].intakes
                /\ view.lanes[p].nodes[t[1]].intakes[t[2]] = e}
        centre == {k \in DOMAIN view.noCards : view.noCards[k].intake = e}
    IN  [cards |-> Cardinality(laneCardsOf("AH")) + Cardinality(laneCardsOf("EI"))
                       + Cardinality(centre),
         nodes |-> Cardinality(laneNodesOf("AH")) + Cardinality(laneNodesOf("EI"))]

\* the events of a lane that are shown individually: the singles and the
\* members of the expanded clusters
individuallyShown(lane) ==
    UNION {{membersOf(lane.items[g])[m] : m \in DOMAIN membersOf(lane.items[g])} :
           g \in {h \in DOMAIN lane.items :
                     \/ lane.items[h].type = "single"
                     \/ isExpanded(lane.items[h])}}

\* C29: every event of a day whose patientId is AH or EI and whose subtype
\* is not LOST is represented exactly once, as one card or as a member of
\* one collapsed cluster node; and the cards of a lane are exactly its
\* singles and the members of its expanded clusters.
C29_RepresentedOnce ==
    pc = "returned" =>
        \A b \in DOMAIN rendered :
            /\ \A k \in DOMAIN groupedByDay[b].intakes :
                   LET e == groupedByDay[b].intakes[k]
                       r == representations(rendered[b], e)
                   IN  (e.patientId \in Lanes /\ e.subtype # "LOST")
                           => r.cards + r.nodes = 1
            /\ \A p \in Lanes :
                   LET lane == rendered[b].lanes[p]
                   IN  /\ {lane.cards[k].intake : k \in DOMAIN lane.cards}
                              = individuallyShown(lane)
                       /\ Len(lane.cards) = Cardinality(individuallyShown(lane))

\* a collapsed cluster next to a centre card
C29_Witness ==
    /\ pc = "returned"
    /\ \E b \in DOMAIN rendered :
           /\ Len(rendered[b].lanes["AH"].nodes) = 1
           /\ Len(rendered[b].noCards) = 1
           /\ rendered[b].noCards[1].intake.patientId = "NO"

----------------------------------------------------------------------------
(* Claim on the markers of the day ruler, under TickSpec *)

\* the minutes of the day at which a labelled marker is drawn
labelledMinutes(plan) ==
    {plan.markers[j].mins : j \in {i \in DOMAIN plan.markers :
                                       plan.markers[i].showLabel}}

\* C30: at every zoom level of ZOOM_LEVELS the tick interval divides 1440
\* and the label interval is a positive multiple of the tick interval; the
\* markers start at minute 0, follow one another at the tick interval and
\* end one tick before minute 1440; and every minute of the day divisible
\* by the label interval carries a labelled marker.
C30_TickTableConsistent ==
    pc = "returned" =>
        \A k \in DOMAIN ticks :
            LET plan == ticks[k]
                tick == plan.tickInterval
                label == plan.labelInterval
                last == Len(plan.markers)
                labelled == labelledMinutes(plan)
            IN  /\ tick > 0
                /\ 1440 % tick = 0
                /\ label > 0
                /\ label % tick = 0
                /\ last > 0
                /\ plan.markers[1].mins = 0
                /\ \A j \in 1..(last - 1) :
                       plan.markers[j + 1].mins - plan.markers[j].mins = tick
                /\ plan.markers[last].mins + tick = 1440
                /\ \A m \in 0..1439 : m % label = 0 => m \in labelled

\* at 3x: a marker every 10 minutes, labelled every 30 minutes
C30_Witness ==
    /\ pc = "returned"
    /\ zooms[1] = 300
    /\ ticks[1].tickInterval = 10
    /\ ticks[1].labelInterval = 30
    /\ Len(ticks[1].markers) = 144
    /\ ticks[1].markers[4].showLabel
    /\ ~ticks[1].markers[2].showLabel

====
